---------------------------- MODULE Spec2Model ----------------------------
(***************************************************************************)
(* A model of lat/lattice-functions.cc (eesen): the lattice algorithms     *)
(* PruneLattice, ComputeLatticeAlphasAndBetas, CompactLatticeLimitDepth,   *)
(* CompactLatticeDepthPerFrame, CompactLatticeShortestPath, the state-time *)
(* labelers, AddWordInsPenToCompactLattice, CompactLatticeToWordAlignment  *)
(* and ComposeCompactLatticeDeterministic.                                 *)
(*                                                                         *)
(* A lattice (Lattice or CompactLattice) is a record                       *)
(*   [start, final, arcs]                                                  *)
(* with final and arcs functions on the state ids 0..n-1; arcs[s] is the   *)
(* sequence of the arcs leaving s in iteration order.  A weight is         *)
(* [v1, v2, str]: the two LatticeWeight components and the frame string of *)
(* a CompactLatticeWeight (always << >> in a Lattice).  Costs are integers *)
(* or Inf; arithmetic is exact (floating-point rounding is not modelled).  *)
(* A failed KALDI_ASSERT or a KALDI_ERR ends the call with pc = "aborted". *)
(***************************************************************************)
EXTENDS Integers, Sequences, FiniteSets, TLC

VARIABLES
  pc,      \* "ready" before a call; then "returned" or "aborted"
  op,      \* the name of the function called last ("" before any call)
  lat,     \* the lattice the caller holds (mutated in place by some calls)
  lat0,    \* the lattice as it was at entry of the last call
  arg,     \* the scalar argument of the last call (beam, depth, penalty)
  det,     \* the DeterministicOnDemandFst handed to composition
  out,     \* the return value and output parameters of the last call
  origin,  \* for each state of lat, its id in lat0 (renumbering by Connect)
  ncalls,  \* number of calls made so far
  input,   \* the lattice the caller started with
  decodable \* the DecodableInterface of the last RescoreLattice

vars == <<pc, op, lat, lat0, arg, det, out, origin, ncalls, input, decodable>>

---------------------------------------------------------------------------
(* Bounds of the model *)

MaxStates == 3
MaxArcs == 3
MaxCost == 1
MaxBeam == 2
MaxLabel == 1
MaxStrLen == 2
MaxDepth == 2
MaxDetStates == 2
MaxDetLabel == 2
MaxPenalty == 4

---------------------------------------------------------------------------
(* Numbers: doubles that are integers, +infinity or -infinity *)

\* std::numeric_limits<double>::infinity()
Inf == 1000000

kNoStateId == -1

Plus(a, b) == IF a = Inf \/ b = Inf THEN Inf ELSE a + b

Min2(a, b) == IF a < b THEN a ELSE b

Max2(a, b) == IF a < b THEN b ELSE a

---------------------------------------------------------------------------
(* Weights *)

\* LatticeWeight::Zero() / CompactLatticeWeight::Zero()
Zero == [v1 |-> Inf, v2 |-> Inf, str |-> << >>]

\* a finite weight
W(a, b, s) == [v1 |-> a, v2 |-> b, str |-> s]

\* ConvertToCost: w1 + w2, ignoring the string; +infinity for Zero
ConvertToCost(w) == Plus(w.v1, w.v2)

---------------------------------------------------------------------------
(* Lattices *)

NumStates(l) == Cardinality(DOMAIN l.final)

States(l) == DOMAIN l.final

NumArcs(l, s) == Len(l.arcs[s])

EmptyLat == [start |-> kNoStateId, final |-> << >>, arcs |-> << >>]

\* MutableFst::AddState: a new non-final state with the next id
AddState(l) ==
  LET n == NumStates(l)
  IN [l EXCEPT !.final = [s \in 0..n |-> IF s < n THEN l.final[s] ELSE Zero],
               !.arcs = [s \in 0..n |-> IF s < n THEN l.arcs[s] ELSE << >>]]

\* the next states of the arcs leaving the states of S
Succ(l, S) == UNION {{l.arcs[s][i].nextstate : i \in DOMAIN l.arcs[s]} : s \in S}

\* states reachable from the states of S
RECURSIVE ReachFrom(_, _)
ReachFrom(l, S) ==
  LET T == S \cup Succ(l, S)
  IN IF T = S THEN S ELSE ReachFrom(l, T)

Accessible(l) ==
  IF l.start = kNoStateId THEN {} ELSE ReachFrom(l, {l.start})

Coaccessible(l) ==
  {s \in States(l) : \E f \in ReachFrom(l, {s}) : l.final[f] # Zero}

\* the states fst::Connect keeps: accessible and coaccessible
ConnectKept(l) == Accessible(l) \cap Coaccessible(l)

\* the states of S in ascending order
RECURSIVE SortedSeq(_)
SortedSeq(S) ==
  IF S = {} THEN << >>
  ELSE LET m == CHOOSE x \in S : \A y \in S : x <= y
       IN <<m>> \o SortedSeq(S \ {m})

\* fst::Connect: delete the states that are not both accessible and
\* coaccessible, with the arcs into them; the states left are renumbered
\* in ascending order of their old ids
Connect(l) ==
  LET K == ConnectKept(l)
      ks == SortedSeq(K)
      newid(s) == Cardinality({k \in K : k < s})
      n == Len(ks)
      keep(as) == SelectSeq(as, LAMBDA a : a.nextstate \in K)
      renum(as) == [i \in DOMAIN as |-> [as[i] EXCEPT !.nextstate = newid(@)]]
  IN IF K = {} THEN EmptyLat
     ELSE [start |-> newid(l.start),
           final |-> [s \in 0..n-1 |-> l.final[ks[s+1]]],
           arcs |-> [s \in 0..n-1 |-> renum(keep(l.arcs[ks[s+1]]))]]

\* old id of each state Connect keeps, indexed by its new id
ConnectOrigin(l) ==
  LET ks == SortedSeq(ConnectKept(l))
  IN [s \in 0..Len(ks)-1 |-> ks[s+1]]

\* lat.Properties(fst::kTopSorted, true): every arc goes to a later state
\* and the start state, when there is one, is state 0
TopSorted(l) ==
  /\ \A s \in States(l) : \A i \in DOMAIN l.arcs[s] : l.arcs[s][i].nextstate > s
  /\ l.start \in {kNoStateId, 0}

---------------------------------------------------------------------------
(* Input lattices: every topologically sorted lattice with start state 0,  *)
(* n states and at most m arcs whose labels and weights are drawn from AK  *)
(* and whose final weights are drawn from FW                               *)

MkArc(il, ol, w, ns) == [ilabel |-> il, olabel |-> ol, weight |-> w, nextstate |-> ns]

\* the arcs an input may have, each with its source state
InputArcs(n, AK) == {g \in [src : 0..n-1, dst : 0..n-1, k : AK] : g.src < g.dst}

\* a list of arcs in the order of their source states
SortedBySrc(al) == \A i \in 1..Len(al)-1 : al[i].src <= al[i+1].src

MkLattice(n, al, fin) ==
  [start |-> IF n = 0 THEN kNoStateId ELSE 0,
   final |-> fin,
   arcs |-> [s \in 0..n-1 |->
              LET mine == SelectSeq(al, LAMBDA g : g.src = s)
              IN [i \in DOMAIN mine |->
                    MkArc(mine[i].k.ilabel, mine[i].k.olabel, mine[i].k.weight,
                          mine[i].dst)]]]

\* l is one of the input lattices of n states
IsInput(l, n, AK, FW, m) ==
  \E k \in 0..m : \E al \in [1..k -> InputArcs(n, AK)] : \E fin \in [0..n-1 -> FW] :
    SortedBySrc(al) /\ l = MkLattice(n, al, fin)

---------------------------------------------------------------------------
(* LatticeStateTimes and CompactLatticeStateTimes *)

\* an arc time that counts epsilon arcs as a frame too
LatticeArcTimeNoEps(cur_time, ilabel) == cur_time + 1

\* lines 50-63: the time of the next state of an arc leaving a state of
\* time cur_time
LatticeArcTime(cur_time, ilabel) == IF ilabel # 0 THEN cur_time + 1 ELSE cur_time

\* lines 46-64: the arcs of one state; r is [ok, times], ok false once an
\* assertion has failed
RECURSIVE LatticeTimesArcs(_, _, _, _)
LatticeTimesArcs(as, i, cur_time, r) ==
  IF i > Len(as) \/ ~r.ok THEN r
  ELSE LET ns == as[i].nextstate
           t == LatticeArcTime(cur_time, as[i].ilabel)
       IN LatticeTimesArcs(as, i + 1, cur_time,
            IF r.times[ns] = -1 THEN [r EXCEPT !.times[ns] = t]
            ELSE IF r.times[ns] = t THEN r
            ELSE [r EXCEPT !.ok = FALSE])

\* lines 44-65
RECURSIVE LatticeTimesStates(_, _, _)
LatticeTimesStates(l, state, r) ==
  IF state >= NumStates(l) \/ ~r.ok THEN r
  ELSE LatticeTimesStates(l, state + 1,
         LatticeTimesArcs(l.arcs[state], 1, r.times[state], r))

\* the largest element of a non-empty array
MaxElement(f) == CHOOSE x \in {f[s] : s \in DOMAIN f} : \A s \in DOMAIN f : f[s] <= x

\* lines 36-67: [aborted, times, ret]
LatticeStateTimes(l) ==
  IF ~TopSorted(l) \/ l.start # 0 THEN [aborted |-> TRUE, times |-> << >>, ret |-> 0]
  ELSE LET num_states == NumStates(l)
           init == [s \in 0..num_states-1 |-> IF s = 0 THEN 0 ELSE -1]
           r == LatticeTimesStates(l, 0, [ok |-> TRUE, times |-> init])
       IN IF ~r.ok THEN [aborted |-> TRUE, times |-> r.times, ret |-> 0]
          ELSE [aborted |-> FALSE, times |-> r.times, ret |-> MaxElement(r.times)]

\* lines 80-88: the arcs of one state of a compact lattice
RECURSIVE CompactTimesArcs(_, _, _, _)
CompactTimesArcs(as, i, cur_time, r) ==
  IF i > Len(as) \/ ~r.ok THEN r
  ELSE LET ns == as[i].nextstate
           arc_len == Len(as[i].weight.str)
       IN CompactTimesArcs(as, i + 1, cur_time,
            IF r.times[ns] = -1 THEN [r EXCEPT !.times[ns] = cur_time + arc_len]
            ELSE IF r.times[ns] = cur_time + arc_len THEN r
            ELSE [r EXCEPT !.ok = FALSE])

\* lines 89-99: the utterance length after the final weight of a state
CompactTimesFinal(l, state, r) ==
  IF l.final[state] # Zero
  THEN LET this_utt_len == r.times[state] + Len(l.final[state].str)
       IN IF r.utt_len = -1 THEN [r EXCEPT !.utt_len = this_utt_len]
          ELSE IF this_utt_len # r.utt_len
               THEN [r EXCEPT !.utt_len = Max2(r.utt_len, this_utt_len)]
               ELSE r
  ELSE r

\* lines 78-100
RECURSIVE CompactTimesStates(_, _, _)
CompactTimesStates(l, state, r) ==
  IF state >= NumStates(l) \/ ~r.ok THEN r
  ELSE LET r1 == CompactTimesArcs(l.arcs[state], 1, r.times[state], r)
       IN CompactTimesStates(l, state + 1,
            IF r1.ok THEN CompactTimesFinal(l, state, r1) ELSE r1)

\* lines 69-106: [aborted, times, ret]
CompactLatticeStateTimes(l) ==
  IF ~TopSorted(l) \/ l.start # 0 THEN [aborted |-> TRUE, times |-> << >>, ret |-> 0]
  ELSE LET num_states == NumStates(l)
           init == [s \in 0..num_states-1 |-> IF s = 0 THEN 0 ELSE -1]
           r == CompactTimesStates(l, 0, [ok |-> TRUE, times |-> init, utt_len |-> -1])
       IN IF ~r.ok THEN [aborted |-> TRUE, times |-> r.times, ret |-> 0]
          ELSE [aborted |-> FALSE, times |-> r.times,
                ret |-> IF r.utt_len = -1 THEN 0 ELSE r.utt_len]

---------------------------------------------------------------------------
(* PruneLattice *)

\* lines 135-145: relax the arcs leaving a state in the forward pass
RECURSIVE PruneForwardArcs(_, _, _, _)
PruneForwardArcs(as, i, this_forward_cost, forward_cost) ==
  IF i > Len(as) THEN forward_cost
  ELSE LET nextstate == as[i].nextstate
           next_forward_cost == Plus(this_forward_cost, ConvertToCost(as[i].weight))
       IN PruneForwardArcs(as, i + 1, this_forward_cost,
            IF forward_cost[nextstate] > next_forward_cost
            THEN [forward_cost EXCEPT ![nextstate] = next_forward_cost]
            ELSE forward_cost)

\* lines 133-151: the forward pass from state on; yields the forward costs
\* and best_final_cost
RECURSIVE PruneForward(_, _, _, _)
PruneForward(l, state, forward_cost, best_final_cost) ==
  IF state >= NumStates(l)
  THEN [forward_cost |-> forward_cost, best_final_cost |-> best_final_cost]
  ELSE LET this_forward_cost == forward_cost[state]
           fc == PruneForwardArcs(l.arcs[state], 1, this_forward_cost, forward_cost)
           this_final_cost == Plus(this_forward_cost, ConvertToCost(l.final[state]))
       IN PruneForward(l, state + 1, fc,
            IF this_final_cost < best_final_cost THEN this_final_cost
            ELSE best_final_cost)

\* an arc test that lets through arcs just beyond the cutoff
PruneArcTestLoose(this_fb_cost, cutoff) == this_fb_cost > Plus(cutoff, 1)

\* line 178: whether an arc is pruned
PruneArcTest(this_fb_cost, cutoff) == this_fb_cost > cutoff

\* a backward relaxation with the comparison inverted
PruneBackwardRelaxInverted(arc_backward_cost, this_backward_cost) ==
  IF arc_backward_cost > this_backward_cost THEN arc_backward_cost
  ELSE this_backward_cost

\* lines 176-177: the backward cost of a state after one more arc
PruneBackwardRelax(arc_backward_cost, this_backward_cost) ==
  IF arc_backward_cost < this_backward_cost THEN arc_backward_cost
  ELSE this_backward_cost

\* lines 167-182: the arcs of a state in the backward pass; yields the arcs
\* (the pruned ones redirected to bad_state) and this_backward_cost
RECURSIVE PruneBackwardArcs(_, _, _, _, _, _, _)
PruneBackwardArcs(as, i, this_forward_cost, this_backward_cost, backward_cost, cutoff, bad_state) ==
  IF i > Len(as) THEN [arcs |-> as, this_backward_cost |-> this_backward_cost]
  ELSE LET arc_cost == ConvertToCost(as[i].weight)
           arc_backward_cost == Plus(arc_cost, backward_cost[as[i].nextstate])
           this_fb_cost == Plus(this_forward_cost, arc_backward_cost)
       IN PruneBackwardArcs(
            IF PruneArcTest(this_fb_cost, cutoff)
            THEN [as EXCEPT ![i].nextstate = bad_state] ELSE as,
            i + 1, this_forward_cost,
            PruneBackwardRelax(arc_backward_cost, this_backward_cost),
            backward_cost, cutoff, bad_state)

\* a final-weight test that also clears the final weights just at the cutoff
PruneFinalTestStrict(this_backward_cost, this_forward_cost, cutoff) ==
  Plus(this_backward_cost, this_forward_cost) >= cutoff /\ this_backward_cost # Inf

\* lines 164-165: whether the final weight of a state is pruned
PruneFinalTest(this_backward_cost, this_forward_cost, cutoff) ==
  Plus(this_backward_cost, this_forward_cost) > cutoff /\ this_backward_cost # Inf

\* lines 160-184: the backward pass from state down; cost is the vector
\* forward_cost and backward_cost share
RECURSIVE PruneBackward(_, _, _, _, _)
PruneBackward(l, state, cost, cutoff, bad_state) ==
  IF state < 0 THEN l
  ELSE LET this_forward_cost == cost[state]
           final_cost == ConvertToCost(l.final[state])
           l1 == IF PruneFinalTest(final_cost, this_forward_cost, cutoff)
                 THEN [l EXCEPT !.final[state] = Zero] ELSE l
           r == PruneBackwardArcs(l.arcs[state], 1, this_forward_cost, final_cost,
                                  cost, cutoff, bad_state)
       IN PruneBackward([l1 EXCEPT !.arcs[state] = r.arcs], state - 1,
                        [cost EXCEPT ![state] = r.this_backward_cost],
                        cutoff, bad_state)

\* lines 152-185, ahead of Connect: the lattice with bad_state added, the
\* pruned arcs redirected to it and the pruned final weights cleared
PruneMarked(beam, l) ==
  LET num_states == NumStates(l)
      init == [s \in 0..num_states-1 |-> IF s = l.start THEN 0 ELSE Inf]
      fwd == PruneForward(l, 0, init, Inf)
      bad_state == num_states
      cutoff == Plus(fwd.best_final_cost, beam)
  IN PruneBackward(AddState(l), num_states - 1, fwd.forward_cost, cutoff, bad_state)

\* lines 108-187: [aborted, undefined, ret, lat]; line 128 writes
\* forward_cost[start], outside the array when there is no start state
PruneLattice(beam, l) ==
  IF ~(beam > 0) THEN [aborted |-> TRUE, undefined |-> FALSE, ret |-> FALSE, lat |-> l]
  ELSE IF NumStates(l) = 0 THEN [aborted |-> FALSE, undefined |-> FALSE, ret |-> FALSE, lat |-> l]
  ELSE IF l.start = kNoStateId THEN [aborted |-> FALSE, undefined |-> TRUE, ret |-> FALSE, lat |-> l]
  ELSE LET m == PruneMarked(beam, l)
           c == Connect(m)
       IN [aborted |-> FALSE, undefined |-> FALSE, ret |-> NumStates(c) > 0, lat |-> c]

---------------------------------------------------------------------------
(* ComputeLatticeAlphasAndBetas                                            *)
(*                                                                         *)
(* A log-likelihood x (a negated cost, or a LogAdd of such) is held as the *)
(* integer LogScale * 2^x, so that kLogZeroDouble (-infinity) is 0, 0.0 is *)
(* LogScale, adding two log-likelihoods multiplies, std::max is the        *)
(* maximum and LogAdd is the sum.  With costs that are whole numbers, and  *)
(* path costs of at most MaxStates * MaxCost, every value is exact.        *)

RECURSIVE Pow2(_)
Pow2(n) == IF n <= 0 THEN 1 ELSE 2 * Pow2(n - 1)

LogScale == Pow2((MaxStates + 1) * MaxCost)

kLogZeroDouble == 0

\* a difference of two log-likelihoods that is not a number
NaN == -1

\* -ConvertToCost(w)
NegCost(w) ==
  LET c == ConvertToCost(w) IN IF c = Inf THEN kLogZeroDouble ELSE LogScale \div Pow2(c)

\* a + b of two log-likelihoods
LogPlus(a, b) == (a * b) \div LogScale

\* a - b of two log-likelihoods: not a number when both are -infinity
LogMinus(a, b) ==
  IF b = 0 THEN (IF a = 0 THEN NaN ELSE Inf) ELSE (a * LogScale) \div b

\* LogAdd(a, b) = log(exp(a) + exp(b))
LogAdd(a, b) == a + b

\* a combine that keeps the first operand
LogAddOrMaxFirst(viterbi, a, b) == IF viterbi THEN a ELSE LogAdd(a, b)

\* lines 194-199
LogAddOrMax(viterbi, a, b) == IF viterbi THEN Max2(a, b) ELSE LogAdd(a, b)

\* lines 225-231: the arcs of state s in the forward pass
RECURSIVE AlphaArcs(_, _, _, _, _)
AlphaArcs(as, i, viterbi, this_alpha, alpha) ==
  IF i > Len(as) THEN alpha
  ELSE LET arc_like == NegCost(as[i].weight)
           ns == as[i].nextstate
       IN AlphaArcs(as, i + 1, viterbi, this_alpha,
            [alpha EXCEPT ![ns] = LogAddOrMax(viterbi, alpha[ns], LogPlus(this_alpha, arc_like))])

\* lines 223-237: the forward pass from state s on; r is [alpha, tot]
RECURSIVE AlphaPass(_, _, _, _)
AlphaPass(l, s, viterbi, r) ==
  IF s >= NumStates(l) THEN r
  ELSE LET this_alpha == r.alpha[s]
           alpha == AlphaArcs(l.arcs[s], 1, viterbi, this_alpha, r.alpha)
           f == l.final[s]
       IN AlphaPass(l, s + 1, viterbi,
            [alpha |-> alpha,
             tot |-> IF f # Zero
                     THEN LogAddOrMax(viterbi, r.tot, LogPlus(this_alpha, NegCost(f)))
                     ELSE r.tot])

\* lines 240-246: the arcs of state s in the backward pass
RECURSIVE BetaArcs(_, _, _, _, _)
BetaArcs(as, i, viterbi, this_beta, beta) ==
  IF i > Len(as) THEN this_beta
  ELSE LET arc_like == NegCost(as[i].weight)
           arc_beta == LogPlus(beta[as[i].nextstate], arc_like)
       IN BetaArcs(as, i + 1, viterbi, LogAddOrMax(viterbi, this_beta, arc_beta), beta)

\* lines 238-248: the backward pass from state s down
RECURSIVE BetaPass(_, _, _, _)
BetaPass(l, s, viterbi, beta) ==
  IF s < 0 THEN beta
  ELSE BetaPass(l, s - 1, viterbi,
         [beta EXCEPT ![s] = BetaArcs(l.arcs[s], 1, viterbi, NegCost(l.final[s]), beta)])

\* the integer square root
RECURSIVE ISqrt(_, _)
ISqrt(x, r) == IF (r + 1) * (r + 1) > x THEN r ELSE ISqrt(x, r + 1)

\* line 255: 0.5 * (a + b) of two log-likelihoods (rounded down when the
\* two differ and their mean is no value of the encoding)
LogMean(a, b) == IF a = b THEN a ELSE ISqrt(a * b, 0)

\* lines 205-256: [aborted, alpha, beta, tot_forward_prob, tot_backward_prob, ret]
ComputeLatticeAlphasAndBetas(l, viterbi) ==
  IF ~TopSorted(l) \/ l.start # 0
  THEN [aborted |-> TRUE, alpha |-> << >>, beta |-> << >>,
        tot_forward_prob |-> kLogZeroDouble, tot_backward_prob |-> kLogZeroDouble,
        ret |-> kLogZeroDouble]
  ELSE LET num_states == NumStates(l)
           a0 == [s \in 0..num_states-1 |-> IF s = 0 THEN LogScale ELSE kLogZeroDouble]
           b0 == [s \in 0..num_states-1 |-> kLogZeroDouble]
           fw == AlphaPass(l, 0, viterbi, [alpha |-> a0, tot |-> kLogZeroDouble])
           beta == BetaPass(l, num_states - 1, viterbi, b0)
       IN [aborted |-> FALSE, alpha |-> fw.alpha, beta |-> beta,
           tot_forward_prob |-> fw.tot, tot_backward_prob |-> beta[l.start],
           ret |-> LogMean(beta[l.start], fw.tot)]

---------------------------------------------------------------------------
(* CompactLatticeLimitDepth *)

\* the arcs of the lattice from state s on, as [state, arc] in the order
\* the loops of lines 299-301 visit them (arc is the iterator position + 1)
RECURSIVE ArcsInOrder(_, _)
ArcsInOrder(l, s) ==
  IF s >= NumStates(l) THEN << >>
  ELSE [i \in DOMAIN l.arcs[s] |-> [state |-> s, arc |-> i]] \o ArcsInOrder(l, s + 1)

\* lines 306-308: arc_record.logprob
LimitDepthLogprob(clat, alpha, beta, best_prob, e) ==
  LET arc == clat.arcs[e.state][e.arc]
  IN LogMinus(LogPlus(LogPlus(alpha[e.state], beta[arc.nextstate]), NegCost(arc.weight)),
              best_prob)

\* line 309: KALDI_ASSERT(arc_record.logprob < 0.1); a logprob is a whole
\* number of cost units or -infinity, or not a number
LimitDepthLogprobOk(logprob) == logprob # NaN /\ logprob <= LogScale

\* lines 311-314: push the record on the frames t..last of its arc; the
\* outcome is "aborted" when t < T fails and "undefined" when arc_records
\* is indexed below 0
RECURSIVE LimitDepthPush(_, _, _, _, _)
LimitDepthPush(rec, t, last, T, r) ==
  IF t > last THEN r
  ELSE IF ~(t < T) THEN [r EXCEPT !.status = "aborted"]
  ELSE IF t < 0 THEN [r EXCEPT !.status = "undefined"]
  ELSE LimitDepthPush(rec, t + 1, last, T,
                      [r EXCEPT !.arc_records[t] = Append(@, rec)])

\* lines 299-316: the arcs es[k..]; r is [status, arc_records]
RECURSIVE LimitDepthRecords(_, _, _, _, _, _, _, _, _)
LimitDepthRecords(clat, es, k, state_times, alpha, beta, best_prob, T, r) ==
  IF k > Len(es) \/ r.status # "ok" THEN r
  ELSE LET e == es[k]
           logprob == LimitDepthLogprob(clat, alpha, beta, best_prob, e)
           rec == [logprob |-> logprob, state |-> e.state, arc |-> e.arc]
           num_frames == Len(clat.arcs[e.state][e.arc].weight.str)
           start_t == state_times[e.state]
       IN LimitDepthRecords(clat, es, k + 1, state_times, alpha, beta, best_prob, T,
            IF ~LimitDepthLogprobOk(logprob) THEN [r EXCEPT !.status = "aborted"]
            ELSE LimitDepthPush(rec, start_t, start_t + num_frames - 1, T, r))

\* the bits of the significand of a BaseFloat, cut down from 24 so that
\* sums of small whole numbers round
FloatBits == 2

\* the values of a size_t, cut down to fit 32-bit model integers: more
\* than any number of records
SizeTModulus == 1000000000

\* line 320: size_t max_depth = max_depth_per_frame
ToSizeT(n) == IF n < 0 THEN SizeTModulus + n ELSE n

SeqRange(q) == {q[i] : i \in DOMAIN q}

\* lines 326-330: what std::nth_element may leave in the first cutoff
\* places of a frame's records: any cutoff of them none of which is greater
\* than one of the others
NthElementFirst(recs, cutoff) ==
  {K \in SUBSET SeqRange(recs) :
     /\ Cardinality(K) = cutoff
     /\ \A a \in K : \A b \in SeqRange(recs) \ K : ~(b.logprob < a.logprob)}

\* a cutoff that keeps one record too many
LimitDepthCutoffOffByOne(size, max_depth) == size - max_depth - 1

\* line 326: the number of records of a frame to remove
LimitDepthCutoff(size, max_depth) == size - max_depth

\* lines 321-341: the sets of arcs the frames t.. may redirect to dead_state
RECURSIVE LimitDepthKills(_, _, _, _)
LimitDepthKills(arc_records, t, T, max_depth) ==
  IF t >= T THEN {{}}
  ELSE LET size == Len(arc_records[t])
           rest == LimitDepthKills(arc_records, t + 1, T, max_depth)
       IN IF size > max_depth
          THEN {{[state |-> a.state, arc |-> a.arc] : a \in K} \cup R :
                  K \in NthElementFirst(arc_records[t], LimitDepthCutoff(size, max_depth)), R \in rest}
          ELSE rest

\* lines 331-338: the arcs of kill made to end in dead_state
Redirect(l, kill, dead_state) ==
  [l EXCEPT !.arcs = [s \in DOMAIN l.arcs |->
     [i \in DOMAIN l.arcs[s] |->
        IF [state |-> s, arc |-> i] \in kill
        THEN [l.arcs[s][i] EXCEPT !.nextstate = dead_state]
        ELSE l.arcs[s][i]]]]

\* lines 271-316: [status, T, arc_records]
LimitDepthScan(clat) ==
  LET st == CompactLatticeStateTimes(clat)
      ab == ComputeLatticeAlphasAndBetas(clat, TRUE)
      T == st.ret
  IN IF st.aborted \/ ab.aborted
     THEN [status |-> "aborted", T |-> 0, arc_records |-> << >>]
     ELSE [T |-> T] @@
          LimitDepthRecords(clat, ArcsInOrder(clat, 0), 1, st.times, ab.alpha, ab.beta,
                            ab.ret, T,
                            [status |-> "ok", arc_records |-> [f \in 0..T-1 |-> << >>]])

\* lines 317-344, for one outcome of the partitions: the lattice with the
\* arcs of kill redirected, ahead of Connect
LimitDepthMarked(clat, kill) == Redirect(AddState(clat), kill, NumStates(clat))

\* a finish that leaves dead_state and the arcs into it in the lattice
LimitDepthFinishNoConnect(l) == l

\* lines 342-343: Connect, then TopSortCompactLatticeIfNeeded, which finds
\* the connected lattice sorted
LimitDepthFinish(l) == Connect(l)

\* lines 271-344: the outcomes [aborted, undefined, lat, origin] of a call
CompactLatticeLimitDepth(max_depth_per_frame, clat) ==
  IF clat.start = kNoStateId
  THEN {[aborted |-> FALSE, undefined |-> FALSE, lat |-> clat, origin |-> [s \in States(clat) |-> s]]}
  ELSE LET sc == LimitDepthScan(clat)
       IN IF sc.status # "ok"
          THEN {[aborted |-> sc.status = "aborted", undefined |-> sc.status = "undefined",
                 lat |-> clat, origin |-> [s \in States(clat) |-> s]]}
          ELSE {[aborted |-> FALSE, undefined |-> FALSE,
                 lat |-> LimitDepthFinish(LimitDepthMarked(clat, kill)),
                 origin |-> ConnectOrigin(LimitDepthMarked(clat, kill))] :
                kill \in LimitDepthKills(sc.arc_records, 0, sc.T, ToSizeT(max_depth_per_frame))}

---------------------------------------------------------------------------
(* CompactLatticeDepthPerFrame *)

\* lines 423-426, 429-432: count the frames t..last; as LimitDepthPush
RECURSIVE DepthCount(_, _, _, _)
DepthCount(t, last, T, r) ==
  IF t > last \/ r.status # "ok" THEN r
  ELSE IF ~(t < T) THEN [r EXCEPT !.status = "aborted"]
  ELSE IF t < 0 THEN [r EXCEPT !.status = "undefined"]
  ELSE DepthCount(t + 1, last, T, [r EXCEPT !.depth_per_frame[t] = @ + 1])

\* lines 419-427: the arcs i.. of a state
RECURSIVE DepthArcs(_, _, _, _, _)
DepthArcs(as, i, start_time, T, r) ==
  IF i > Len(as) \/ r.status # "ok" THEN r
  ELSE DepthArcs(as, i + 1, start_time, T,
         DepthCount(start_time, start_time + Len(as[i].weight.str) - 1, T, r))

\* lines 417-433: the states s..
RECURSIVE DepthStates(_, _, _, _, _)
DepthStates(clat, s, state_times, T, r) ==
  IF s >= NumStates(clat) \/ r.status # "ok" THEN r
  ELSE LET start_time == state_times[s]
           r1 == DepthArcs(clat.arcs[s], 1, start_time, T, r)
           final_len == Len(clat.final[s].str)
       IN DepthStates(clat, s + 1, state_times, T,
                      DepthCount(start_time, start_time + final_len - 1, T, r1))

\* lines 398-435: [status, depth_per_frame]
CompactLatticeDepthPerFrame(clat) ==
  IF ~TopSorted(clat) THEN [status |-> "aborted", depth_per_frame |-> << >>]
  ELSE IF clat.start = kNoStateId THEN [status |-> "ok", depth_per_frame |-> << >>]
  ELSE LET st == CompactLatticeStateTimes(clat)
           T == st.ret
       IN IF st.aborted THEN [status |-> "aborted", depth_per_frame |-> << >>]
          ELSE IF T <= 0 THEN [status |-> "ok", depth_per_frame |-> << >>]
          ELSE DepthStates(clat, 0, st.times, T,
                           [status |-> "ok", depth_per_frame |-> [f \in 0..T-1 |-> 0]])

---------------------------------------------------------------------------
(* CompactLatticeShortestPath *)

\* a relaxation that also takes an equal cost, so the last arc seen wins
ShortestBetterOrEqual(next_cost, best) == next_cost <= best

\* lines 520, 527: whether a cost improves on the best one so far
ShortestBetter(next_cost, best) == next_cost < best

\* lines 514-524: relax the arcs leaving state s; tab is best_cost_and_pred
RECURSIVE ShortestArcs(_, _, _, _, _)
ShortestArcs(as, i, s, my_cost, tab) ==
  IF i > Len(as) THEN tab
  ELSE LET arc_cost == ConvertToCost(as[i].weight)
           next_cost == Plus(my_cost, arc_cost)
           ns == as[i].nextstate
       IN ShortestArcs(as, i + 1, s, my_cost,
            IF ShortestBetter(next_cost, tab[ns].first)
            THEN [tab EXCEPT ![ns] = [first |-> next_cost, second |-> s]]
            ELSE tab)

\* lines 512-531: the pass over the states from s on
RECURSIVE ShortestPass(_, _, _)
ShortestPass(clat, s, tab) ==
  IF s >= NumStates(clat) THEN tab
  ELSE LET my_cost == tab[s].first
           superfinal == NumStates(clat)
           t1 == ShortestArcs(clat.arcs[s], 1, s, my_cost, tab)
           final_cost == ConvertToCost(clat.final[s])
           tot_final == Plus(my_cost, final_cost)
       IN ShortestPass(clat, s + 1,
            IF ShortestBetter(tot_final, t1[superfinal].first)
            THEN [t1 EXCEPT ![superfinal] = [first |-> tot_final, second |-> s]]
            ELSE t1)

\* lines 532-544: the states on the best path, first to last; ok is false
\* when the chain of predecessors breaks (line 536)
RECURSIVE ShortestWalk(_, _, _)
ShortestWalk(tab, cur_state, states) ==
  IF cur_state = 0 THEN [ok |-> TRUE, states |-> states]
  ELSE LET prev_state == tab[cur_state].second
       IN IF prev_state = kNoStateId THEN [ok |-> FALSE, states |-> << >>]
          ELSE ShortestWalk(tab, prev_state, <<prev_state>> \o states)

\* lines 550-563: the arc from state a to state b of least cost, the first
\* of them in iteration order
RECURSIVE ShortestPickArc(_, _, _, _, _)
ShortestPickArc(as, i, b, have_arc, cur_arc) ==
  IF i > Len(as) THEN [have_arc |-> have_arc, cur_arc |-> cur_arc]
  ELSE IF as[i].nextstate = b
          /\ (~have_arc \/ ConvertToCost(as[i].weight) < ConvertToCost(cur_arc.weight))
       THEN ShortestPickArc(as, i + 1, b, TRUE, as[i])
       ELSE ShortestPickArc(as, i + 1, b, have_arc, cur_arc)

\* lines 488-571: [aborted, shortest_path]
CompactLatticeShortestPath(clat) ==
  IF clat.start = kNoStateId THEN [aborted |-> FALSE, shortest_path |-> EmptyLat]
  ELSE IF clat.start # 0 THEN [aborted |-> TRUE, shortest_path |-> EmptyLat]
  ELSE
    LET n == NumStates(clat)
        init == [s \in 0..n |-> [first |-> IF s = 0 THEN 0 ELSE Inf,
                                 second |-> kNoStateId]]
        tab == ShortestPass(clat, 0, init)
        w == ShortestWalk(tab, n, << >>)
        states == w.states
        k == Len(states)
        pick(s) == ShortestPickArc(clat.arcs[states[s+1]], 1, states[s+2], FALSE,
                                   MkArc(0, 0, Zero, kNoStateId))
    IN IF ~w.ok THEN [aborted |-> FALSE, shortest_path |-> EmptyLat]
       ELSE IF \E s \in 0..k-2 : ~pick(s).have_arc
       THEN [aborted |-> TRUE, shortest_path |-> EmptyLat]
       ELSE [aborted |-> FALSE,
             shortest_path |->
               [start |-> 0,
                final |-> [s \in 0..k-1 |->
                             IF s + 1 < k THEN Zero ELSE clat.final[states[s+1]]],
                arcs |-> [s \in 0..k-1 |->
                            IF s + 1 < k
                            THEN <<[pick(s).cur_arc EXCEPT !.nextstate = s + 1]>>
                            ELSE << >>]]]

---------------------------------------------------------------------------
(* ComposeCompactLatticeDeterministic, lines 740-850 *)

\* MutableFst::AddArc
AddArc(l, s, a) == [l EXCEPT !.arcs[s] = Append(@, a)]

\* MutableFst::SetFinal
SetFinal(l, s, w) == [l EXCEPT !.final[s] = w]

\* MutableFst::SetStart
SetStart(l, s) == [l EXCEPT !.start = s]

\* det_fst->GetArc(s, ilabel, &arc): [matched, weight, nextstate]
DetGetArc(d, s, ilabel) == d.arcs[<<s, ilabel>>]

\* lines 779-782: the final weight, computed by hand
ComposeFinalWeight(clat, d, s1, s2) ==
  W(Plus(clat.final[s1].v1, d.final[s2]), clat.final[s1].v2, clat.final[s1].str)

\* state_map.find: the composed state of a pair, kNoStateId when there is
\* none; composed states are numbered in the order their pairs are inserted
ComposeFind(pairs, np) ==
  IF \E j \in DOMAIN pairs : pairs[j] = np
  THEN (CHOOSE j \in DOMAIN pairs : pairs[j] = np) - 1
  ELSE kNoStateId

\* lines 829-840: the arc added to composed_clat
ComposeArc(arc1, arc2, next_state) ==
  IF arc1.olabel = 0
  THEN MkArc(0, 0, arc1.weight, next_state)
  ELSE MkArc(arc1.ilabel, arc1.olabel,
             W(Plus(arc1.weight.v1, arc2.weight), arc1.weight.v2, arc1.weight.str),
             next_state)

\* lines 788-842: the arcs i.. of s1, for the pair of composed state k;
\* r is [pairs, lat], pairs holding state_map and, from k + 2 on, state_queue
RECURSIVE ComposeArcs(_, _, _, _, _)
ComposeArcs(clat, d, k, i, r) ==
  LET s1 == r.pairs[k + 1][1]
      s2 == r.pairs[k + 1][2]
  IN IF i > Len(clat.arcs[s1]) THEN r
     ELSE
       LET arc1 == clat.arcs[s1][i]
           arc2 == IF arc1.olabel = 0 THEN [matched |-> TRUE, weight |-> 0, nextstate |-> s2]
                   ELSE DetGetArc(d, s2, arc1.olabel)
           np == <<arc1.nextstate, arc2.nextstate>>
           r1 == IF ComposeFind(r.pairs, np) = kNoStateId
                 THEN [pairs |-> Append(r.pairs, np), lat |-> AddState(r.lat)]
                 ELSE r
           next_state == ComposeFind(r1.pairs, np)
       IN IF arc2.matched
          THEN ComposeArcs(clat, d, k, i + 1,
                           [r1 EXCEPT !.lat = AddArc(@, k, ComposeArc(arc1, arc2, next_state))])
          ELSE ComposeArcs(clat, d, k, i + 1, r)

\* lines 769-843: the pairs of the queue, from that of composed state k on
RECURSIVE ComposeStates(_, _, _, _)
ComposeStates(clat, d, k, r) ==
  IF k >= Len(r.pairs) THEN r
  ELSE
    LET s1 == r.pairs[k + 1][1]
        s2 == r.pairs[k + 1][2]
        final_weight == ComposeFinalWeight(clat, d, s1, s2)
        r1 == IF final_weight # Zero
              THEN [r EXCEPT !.lat = SetFinal(@, k, final_weight)]
              ELSE r
    IN ComposeStates(clat, d, k + 1, ComposeArcs(clat, d, k, 1, r1))

\* lines 740-850: [undefined, lat, pairs], the composed lattice and the pair
\* of each of its states; with no start state in clat, line 779 reads
\* clat.Final(kNoStateId), outside the states of clat
ComposeCompactLatticeDeterministic(clat, d) ==
  LET start_pair == <<clat.start, d.start>>
      first == SetStart(AddState(EmptyLat), 0)
  IN IF clat.start = kNoStateId
     THEN [undefined |-> TRUE, lat |-> first, pairs |-> <<start_pair>>]
     ELSE LET r == ComposeStates(clat, d, 0, [pairs |-> <<start_pair>>, lat |-> first])
              keep == ConnectOrigin(r.lat)
          IN [undefined |-> FALSE, lat |-> Connect(r.lat),
              pairs |-> [s \in DOMAIN keep |-> r.pairs[keep[s] + 1]]]

---------------------------------------------------------------------------
(* AddWordInsPenToCompactLattice, lines 573-594 *)

Abs(x) == IF x < 0 THEN 0 - x ELSE x

\* the power of two that is the spacing of the BaseFloat values around x
RECURSIVE FloatQuantum(_, _)
FloatQuantum(x, q) ==
  IF Abs(x) < Pow2(FloatBits) * q THEN q ELSE FloatQuantum(x, 2 * q)

\* the BaseFloat nearest to the whole number x, ties to the even significand
FloatRound(x) ==
  LET q == FloatQuantum(x, 1)
      m == Abs(x) \div q
      rem == Abs(x) % q
      up == IF 2 * rem > q \/ (2 * rem = q /\ m % 2 = 1) THEN m + 1 ELSE m
  IN IF x < 0 THEN 0 - up * q ELSE up * q

\* line 588: a + b of two BaseFloat
FloatAdd(a, b) == IF a = Inf THEN Inf ELSE FloatRound(a + b)

\* an arc that gets the penalty whether it has a word or not
WipArcAlways(arc, word_ins_penalty) ==
  [arc EXCEPT !.weight.v1 = FloatAdd(@, word_ins_penalty)]

\* lines 583-591: one arc
WipArc(arc, word_ins_penalty) ==
  IF arc.ilabel # 0
  THEN [arc EXCEPT !.weight.v1 = FloatAdd(@, word_ins_penalty)]
  ELSE arc

\* lines 573-594: the lattice after the call
AddWordInsPenToCompactLattice(word_ins_penalty, clat) ==
  [clat EXCEPT !.arcs = [state \in States(clat) |->
                           [i \in DOMAIN clat.arcs[state] |->
                              WipArc(clat.arcs[state][i], word_ins_penalty)]]]

---------------------------------------------------------------------------
(* CompactLatticeToWordAlignment, lines 438-486 *)

\* a loop that records the time at which an arc ends as its begin time
RECURSIVE AlignWalkEndTimes(_, _, _, _)
AlignWalkEndTimes(clat, state, cur_time, r) ==
  LET final == clat.final[state]
      num_arcs == NumArcs(clat, state)
  IN IF final # Zero
     THEN IF num_arcs # 0 THEN [r EXCEPT !.ret = FALSE] ELSE [r EXCEPT !.ret = TRUE]
     ELSE IF num_arcs # 1 THEN [r EXCEPT !.ret = FALSE]
     ELSE LET arc == clat.arcs[state][1]
              length == Len(arc.weight.str)
          IN AlignWalkEndTimes(clat, arc.nextstate, cur_time + length,
                               [r EXCEPT !.words = Append(@, arc.ilabel),
                                         !.begin_times = Append(@, cur_time + length),
                                         !.lengths = Append(@, length)])

\* lines 456-485: the loop, at state; r is [ret, words, begin_times, lengths]
RECURSIVE AlignWalk(_, _, _, _)
AlignWalk(clat, state, cur_time, r) ==
  LET final == clat.final[state]
      num_arcs == NumArcs(clat, state)
  IN IF final # Zero
     THEN IF num_arcs # 0 THEN [r EXCEPT !.ret = FALSE] ELSE [r EXCEPT !.ret = TRUE]
     ELSE IF num_arcs # 1 THEN [r EXCEPT !.ret = FALSE]
     ELSE LET arc == clat.arcs[state][1]
              length == Len(arc.weight.str)
          IN AlignWalk(clat, arc.nextstate, cur_time + length,
                       [r EXCEPT !.words = Append(@, arc.ilabel),
                                 !.begin_times = Append(@, cur_time),
                                 !.lengths = Append(@, length)])

\* lines 438-486: [ret, words, begin_times, lengths]
CompactLatticeToWordAlignment(clat) ==
  LET cleared == [ret |-> FALSE, words |-> << >>, begin_times |-> << >>, lengths |-> << >>]
  IN IF clat.start = kNoStateId THEN cleared
     ELSE AlignWalk(clat, clat.start, 0, cleared)

---------------------------------------------------------------------------
(* CompactLatticeDepth, lines 367-395 *)

\* lines 384-392: num_arc_frames
CompactDepthArcFrames(clat) ==
  LET es == ArcsInOrder(clat, 0)
      StrLen(i) == Len(clat.arcs[es[i].state][es[i].arc].weight.str)
      FinLen(s) == Len(clat.final[s].str)
      SumTo[i \in 0..Len(es)] == IF i = 0 THEN 0 ELSE SumTo[i - 1] + StrLen(i)
      FinTo[s \in -1..NumStates(clat)-1] == IF s = -1 THEN 0 ELSE FinTo[s - 1] + FinLen(s)
  IN SumTo[Len(es)] + FinTo[NumStates(clat) - 1]

\* lines 367-395: [aborted, num_frames, depth]; the BaseFloat returned is
\* depth.num / depth.den
CompactLatticeDepth(clat) ==
  IF ~TopSorted(clat)
  THEN [aborted |-> TRUE, num_frames |-> 0, depth |-> [num |-> 0, den |-> 1]]
  ELSE IF clat.start = kNoStateId
  THEN [aborted |-> FALSE, num_frames |-> 0, depth |-> [num |-> 1, den |-> 1]]
  ELSE LET st == CompactLatticeStateTimes(clat)
       IN [aborted |-> st.aborted, num_frames |-> st.ret,
           depth |-> [num |-> CompactDepthArcFrames(clat), den |-> st.ret]]

---------------------------------------------------------------------------
(* RescoreLattice, lines 611-662 *)

\* decodable->IsLastFrame(t)
IsLastFrame(d, t) == t \in d.last

\* decodable->LogLikelihood(t, trans_id)
LogLikelihood(d, t, trans_id) == d.scale * (2 * t + trans_id)

\* an arc rewritten whether it has a label or not
RescoreArcAlways(arc, d, t) ==
  [arc EXCEPT !.weight.v2 = FloatAdd(@, 0 - LogLikelihood(d, t, arc.ilabel))]

\* lines 650-658: one arc of a state of time t
RescoreArc(arc, d, t) ==
  IF arc.ilabel # 0
  THEN [arc EXCEPT !.weight.v2 = FloatAdd(@, 0 - LogLikelihood(d, t, arc.ilabel))]
  ELSE arc

\* lines 630-637: time_to_state[t], the states of time t in ascending order
TimeToState(times, utt_len, t) ==
  SortedSeq({state \in DOMAIN times : times[state] = t /\ t >= 0 /\ t < utt_len})

\* lines 645-659: the states of time_to_state[t] from the i-th on
RECURSIVE RescoreStates(_, _, _, _, _)
RescoreStates(l, d, t, ss, i) ==
  IF i > Len(ss) THEN l
  ELSE RescoreStates([l EXCEPT !.arcs[ss[i]] =
                         [k \in DOMAIN @ |-> RescoreArc(@[k], d, t)]],
                     d, t, ss, i + 1)

\* a loop that rewrites the arcs of a frame before it asks for the last frame
RECURSIVE RescoreFramesLateTest(_, _, _, _, _)
RescoreFramesLateTest(l, d, times, utt_len, t) ==
  IF t >= utt_len THEN [ret |-> TRUE, lat |-> l]
  ELSE LET l1 == RescoreStates(l, d, t, TimeToState(times, utt_len, t), 1)
       IN IF t < utt_len - 1 /\ IsLastFrame(d, t) THEN [ret |-> FALSE, lat |-> l1]
          ELSE RescoreFramesLateTest(l1, d, times, utt_len, t + 1)

\* lines 639-660: the frames t..utt_len-1
RECURSIVE RescoreFrames(_, _, _, _, _)
RescoreFrames(l, d, times, utt_len, t) ==
  IF t >= utt_len THEN [ret |-> TRUE, lat |-> l]
  ELSE IF t < utt_len - 1 /\ IsLastFrame(d, t) THEN [ret |-> FALSE, lat |-> l]
  ELSE RescoreFrames(RescoreStates(l, d, t, TimeToState(times, utt_len, t), 1),
                     d, times, utt_len, t + 1)

\* lines 611-662: [aborted, ret, lat]; LatticeStateTimes asserts that the
\* start state is state 0
RescoreLattice(d, l) ==
  IF NumStates(l) = 0 THEN [aborted |-> FALSE, ret |-> FALSE, lat |-> l]
  ELSE LET st == LatticeStateTimes(l)
       IN IF st.aborted THEN [aborted |-> TRUE, ret |-> FALSE, lat |-> l]
          ELSE LET r == RescoreFrames(l, d, st.times, st.ret, 0)
               IN [aborted |-> FALSE, ret |-> r.ret, lat |-> r.lat]

---------------------------------------------------------------------------
(* LongestSentenceLength, lines 664-738 *)

\* lines 677-691 (Lattice) and 712-730 (CompactLattice): the arcs i.. of
\* state s; r is [ok, max_length]
RECURSIVE LongestArcs(_, _, _, _, _, _)
LongestArcs(l, compact, s, i, this_max_length, r) ==
  IF ~r.ok \/ i > Len(l.arcs[s]) THEN r
  ELSE LET arc == l.arcs[s][i]
           arc_has_word == IF compact THEN arc.ilabel # 0 ELSE arc.olabel # 0
           nextstate == arc.nextstate
           inside == nextstate >= 0 /\ nextstate < NumStates(l)
           forward == (~compact /\ ~arc_has_word) \/ nextstate > s
       IN IF ~inside \/ ~forward THEN [r EXCEPT !.ok = FALSE]
          ELSE LongestArcs(l, compact, s, i + 1, this_max_length,
                           [r EXCEPT !.max_length[nextstate] =
                              Max2(@, IF arc_has_word THEN this_max_length + 1
                                      ELSE this_max_length)])

\* lines 675-695 and 710-735: the states s..; r is [ok, max_length,
\* lattice_max_length]
RECURSIVE LongestStates(_, _, _, _)
LongestStates(l, compact, s, r) ==
  IF ~r.ok \/ s >= NumStates(l) THEN r
  ELSE LET r1 == LongestArcs(l, compact, s, 1, r.max_length[s], r)
       IN LongestStates(l, compact, s + 1,
                        IF r1.ok /\ l.final[s] # Zero
                        THEN [r1 EXCEPT !.lattice_max_length = Max2(@, r1.max_length[s])]
                        ELSE r1)

\* lines 664-699 and 701-738, on a topologically sorted lattice:
\* [aborted, ret]
LongestSentenceLength(l, compact) ==
  LET r == LongestStates(l, compact, 0,
                         [ok |-> TRUE, max_length |-> [s \in States(l) |-> 0],
                          lattice_max_length |-> 0])
  IN [aborted |-> ~r.ok, ret |-> r.lattice_max_length]

---------------------------------------------------------------------------
(* Paths of a lattice and their costs, for stating the properties *)

\* the paths leaving state s: sequences of [src, idx], arc idx of state src
RECURSIVE PathsFrom(_, _)
PathsFrom(l, s) ==
  {<< >>} \cup
  UNION {{<<[src |-> s, idx |-> i]>> \o p : p \in PathsFrom(l, l.arcs[s][i].nextstate)}
         : i \in DOMAIN l.arcs[s]}

ArcAt(l, e) == l.arcs[e.src][e.idx]

\* the state a path from s ends in
PathEnd(l, s, p) == IF p = << >> THEN s ELSE ArcAt(l, p[Len(p)]).nextstate

RECURSIVE PathCost(_, _)
PathCost(l, p) ==
  IF p = << >> THEN 0
  ELSE Plus(ConvertToCost(ArcAt(l, p[1]).weight), PathCost(l, Tail(p)))

MinOf(S) == IF S = {} THEN Inf ELSE CHOOSE x \in S : \A y \in S : x <= y

MaxOf(S) == CHOOSE x \in S : \A y \in S : y <= x

\* least cost of a path from the start state to s
FwdCost(l, s) ==
  IF l.start = kNoStateId THEN Inf
  ELSE MinOf({PathCost(l, p) : p \in {q \in PathsFrom(l, l.start) : PathEnd(l, l.start, q) = s}})

\* least cost of a path from s to a final state, final cost included
BwdCost(l, s) ==
  MinOf({Plus(PathCost(l, p), ConvertToCost(l.final[PathEnd(l, s, p)])) : p \in PathsFrom(l, s)})

\* least cost of a start-to-final path
BestCost(l) == IF l.start = kNoStateId THEN Inf ELSE BwdCost(l, l.start)

TotalArcs(l) ==
  Cardinality({e \in [src : States(l), idx : 1..(MaxArcs + 1)] : e.idx <= Len(l.arcs[e.src])})

\* lat is a part of lat0: each state, arc and final weight of lat is one of
\* lat0 under origin
SubLattice ==
  /\ \A s \in States(lat) : origin[s] \in States(lat0)
  /\ \A s \in States(lat) : lat.final[s] \in {Zero, lat0.final[origin[s]]}
  /\ \A s \in States(lat) : \A i \in DOMAIN lat.arcs[s] :
       \E j \in DOMAIN lat0.arcs[origin[s]] :
         lat0.arcs[origin[s]][j] =
           [lat.arcs[s][i] EXCEPT !.nextstate = origin[lat.arcs[s][i].nextstate]]

---------------------------------------------------------------------------
(* The callers *)

Identity(l) == [s \in States(l) |-> s]

NoDet == [start |-> kNoStateId, final |-> << >>, arcs |-> << >>]

NoOut == [ret |-> FALSE]

NoDecodable == [last |-> {}, scale |-> 0]

\* the state before any call, the caller holding one of the input lattices
InitWith(Ns, AK, FW, m) ==
  /\ \E n \in Ns : IsInput(lat, n, AK, FW, m)
  /\ pc = "ready" /\ op = "" /\ lat0 = lat /\ arg = 0
  /\ det = NoDet /\ out = NoOut /\ origin = Identity(lat) /\ ncalls = 0
  /\ input = lat /\ decodable = NoDecodable

\* the state after a call: "aborted" after a failed KALDI_ASSERT or a
\* KALDI_ERR, "undefined" after an access outside an array
Finish(r, name, a, o, orig) ==
  /\ pc' = IF r.aborted THEN "aborted"
           ELSE IF "undefined" \in DOMAIN r /\ r.undefined THEN "undefined"
           ELSE "returned"
  /\ op' = name /\ lat0' = lat /\ arg' = a /\ out' = o
  /\ lat' = r.lat /\ origin' = orig /\ ncalls' = ncalls + 1
  /\ UNCHANGED <<det, input, decodable>>

---------------------------------------------------------------------------
(* Pruning *)

CostWeights == {W(c, 0, << >>) : c \in 0..MaxCost}

PruneArcKinds == {[ilabel |-> 1, olabel |-> 1, weight |-> w] : w \in CostWeights}

Beams == 0..MaxBeam

CallPruneLattice ==
  /\ pc = "ready"
  /\ \E beam \in Beams :
       LET r == PruneLattice(beam, lat)
       IN Finish(r, "PruneLattice", beam, [ret |-> r.ret],
                 IF r.aborted \/ r.undefined \/ NumStates(lat) = 0 THEN Identity(lat)
                 ELSE ConnectOrigin(PruneMarked(beam, lat)))

InitPrune == InitWith(0..MaxStates, PruneArcKinds, {Zero} \cup CostWeights, MaxArcs)

NextPrune == CallPruneLattice

SpecPrune == InitPrune /\ [][NextPrune]_vars

\* C1 (pruning soundness): after PruneLattice(beam, lat) every arc s -> t
\* still in the lattice is an arc of the lattice before the call with
\* forward_before[s] + cost(arc) + backward_before[t] <= best_final_before + beam.
PruneSound ==
  (op = "PruneLattice" /\ pc = "returned") =>
    /\ SubLattice
    /\ \A s \in States(lat) : \A i \in DOMAIN lat.arcs[s] :
         LET a == lat.arcs[s][i]
         IN Plus(Plus(FwdCost(lat0, origin[s]), ConvertToCost(a.weight)),
                 BwdCost(lat0, origin[a.nextstate]))
              <= Plus(BestCost(lat0), arg)

\* a call that pruned some arcs and kept others
PruneSoundWitness ==
  /\ op = "PruneLattice" /\ pc = "returned"
  /\ TotalArcs(lat) > 0 /\ TotalArcs(lat) < TotalArcs(lat0)
  /\ BestCost(lat0) > 0

\* C2 (pruning preserves the best path, as amended): for a lattice with a
\* start-to-final path and a beam > 0, PruneLattice returns true, what is
\* left is a part of the input, and the least start-to-final cost is the
\* one before the call; a beam <= 0 fails the assertion of line 114 and
\* leaves the lattice alone.
PruneKeepsBest ==
  /\ (op = "PruneLattice" /\ arg > 0 /\ BestCost(lat0) < Inf) =>
       /\ pc = "returned" /\ out.ret
       /\ SubLattice
       /\ BestCost(lat) = BestCost(lat0)
  /\ (op = "PruneLattice" /\ arg <= 0) => (pc = "aborted" /\ lat = lat0)

\* a call with a positive beam that pruned a worse path and kept a best
\* path of two arcs or more
PruneKeepsBestWitness ==
  /\ op = "PruneLattice" /\ pc = "returned" /\ arg > 0
  /\ BestCost(lat0) < Inf
  /\ TotalArcs(lat) < TotalArcs(lat0)
  /\ NumStates(lat) >= 3

\* C2 as first stated: for any beam >= 0 the call completes and the best
\* path survives.
PruneKeepsBestAnyBeam ==
  (op = "PruneLattice" /\ arg >= 0 /\ BestCost(lat0) < Inf) =>
    (pc = "returned" /\ BestCost(lat) = BestCost(lat0))

---------------------------------------------------------------------------
(* Shortest path *)

ShortestArcKinds == {[ilabel |-> 1, olabel |-> 1, weight |-> w] : w \in {Zero} \cup CostWeights}

CallCompactLatticeShortestPath ==
  /\ pc = "ready"
  /\ LET r == CompactLatticeShortestPath(lat)
     IN Finish([aborted |-> r.aborted, lat |-> lat], "CompactLatticeShortestPath", 0,
               [shortest_path |-> r.shortest_path], Identity(lat))

InitShortest == InitWith(0..MaxStates, ShortestArcKinds, {Zero} \cup CostWeights, MaxArcs)

NextShortest == CallCompactLatticeShortestPath

SpecShortest == InitShortest /\ [][NextShortest]_vars

\* l is one linear path: states 0..k, one arc from each state to the next,
\* only the last state final
IsLinearPath(l) ==
  LET k == NumStates(l) - 1
  IN /\ k >= 0 /\ l.start = 0
     /\ \A s \in 0..k-1 : /\ l.final[s] = Zero
                          /\ Len(l.arcs[s]) = 1
                          /\ l.arcs[s][1].nextstate = s + 1
     /\ l.final[k] # Zero /\ l.arcs[k] = << >>

\* C3 (shortest-path optimality): when the input has a start-to-final path
\* of finite cost, CompactLatticeShortestPath outputs one linear path whose
\* cost, final cost included, is the least cost of a start-to-final path of
\* the input; otherwise the output is empty.
ShortestPathOptimal ==
  (op = "CompactLatticeShortestPath") =>
    /\ pc = "returned" /\ lat = lat0
    /\ BestCost(lat0) < Inf =>
         /\ IsLinearPath(out.shortest_path)
         /\ BestCost(out.shortest_path) = BestCost(lat0)
    /\ BestCost(lat0) = Inf => out.shortest_path = EmptyLat

\* a call on a lattice where the best path has two arcs and a dearer path
\* exists
ShortestPathWitness ==
  /\ op = "CompactLatticeShortestPath" /\ pc = "returned"
  /\ NumStates(out.shortest_path) = 3
  /\ TotalArcs(lat0) = 3
  /\ Cardinality({Plus(PathCost(lat0, p), ConvertToCost(lat0.final[PathEnd(lat0, 0, p)])) : p \in PathsFrom(lat0, 0)} \ {Inf}) >= 2

---------------------------------------------------------------------------
(* State times *)

\* the frame string of n frames
Str(n) == [i \in 1..n |-> i]

One == W(0, 0, << >>)

\* Lattice arcs: with or without an input label, with or without a word
TimesLatArcKinds == {[ilabel |-> il, olabel |-> 0, weight |-> One] : il \in 0..MaxLabel}

\* CompactLattice arcs: frame strings of 0..MaxStrLen frames
TimesClatArcKinds == {[ilabel |-> 1, olabel |-> 1, weight |-> W(0, 0, Str(n))] : n \in 0..MaxStrLen}

\* a Lattice carries no frame strings; a CompactLattice is an acceptor
IsLattice(l) ==
  /\ \A s \in States(l) : l.final[s].str = << >>
  /\ \A s \in States(l) : \A i \in DOMAIN l.arcs[s] : l.arcs[s][i].weight.str = << >>

IsCompactLattice(l) ==
  \A s \in States(l) : \A i \in DOMAIN l.arcs[s] : l.arcs[s][i].ilabel = l.arcs[s][i].olabel

CallLatticeStateTimes ==
  /\ pc = "ready" /\ IsLattice(lat)
  /\ LET r == LatticeStateTimes(lat)
     IN Finish([aborted |-> r.aborted, lat |-> lat], "LatticeStateTimes", 0,
               [times |-> r.times, ret |-> r.ret], Identity(lat))

CallCompactLatticeStateTimes ==
  /\ pc = "ready" /\ IsCompactLattice(lat)
  /\ LET r == CompactLatticeStateTimes(lat)
     IN Finish([aborted |-> r.aborted, lat |-> lat], "CompactLatticeStateTimes", 0,
               [times |-> r.times, ret |-> r.ret], Identity(lat))

InitTimes ==
  \/ InitWith(1..MaxStates, TimesLatArcKinds, {Zero, One}, MaxArcs + 1)
  \/ InitWith(1..MaxStates, TimesClatArcKinds, {Zero, One, W(0, 0, Str(1))}, MaxArcs)

NextTimes == CallLatticeStateTimes \/ CallCompactLatticeStateTimes

SpecTimes == InitTimes /\ [][NextTimes]_vars

\* number of arcs of a path with a non-epsilon input label
RECURSIVE PathIlabels(_, _)
PathIlabels(l, p) ==
  IF p = << >> THEN 0
  ELSE (IF ArcAt(l, p[1]).ilabel # 0 THEN 1 ELSE 0) + PathIlabels(l, Tail(p))

\* total length of the frame strings of a path
RECURSIVE PathFrames(_, _)
PathFrames(l, p) ==
  IF p = << >> THEN 0
  ELSE Len(ArcAt(l, p[1]).weight.str) + PathFrames(l, Tail(p))

\* C6 (conservation of time): when LatticeStateTimes returns, the time of
\* every state reachable from the start is the number of non-epsilon input
\* labels on every path from the start to it; when CompactLatticeStateTimes
\* returns, it is the total frame-string length of every such path; two
\* paths from the start to one state that disagree end the call in an
\* assertion failure.
TimeConservation ==
  /\ (op = "LatticeStateTimes" /\ pc = "returned") =>
       \A p \in PathsFrom(lat0, 0) : out.times[PathEnd(lat0, 0, p)] = PathIlabels(lat0, p)
  /\ (op = "CompactLatticeStateTimes" /\ pc = "returned") =>
       \A p \in PathsFrom(lat0, 0) : out.times[PathEnd(lat0, 0, p)] = PathFrames(lat0, p)
  /\ (op = "LatticeStateTimes"
      /\ \E p, q \in PathsFrom(lat0, 0) :
           PathEnd(lat0, 0, p) = PathEnd(lat0, 0, q) /\ PathIlabels(lat0, p) # PathIlabels(lat0, q))
       => pc = "aborted"
  /\ (op = "CompactLatticeStateTimes"
      /\ \E p, q \in PathsFrom(lat0, 0) :
           PathEnd(lat0, 0, p) = PathEnd(lat0, 0, q) /\ PathFrames(lat0, p) # PathFrames(lat0, q))
       => pc = "aborted"

\* a compact lattice where two paths of different shape reach a state at
\* the same positive time, and a state no path from the start reaches
TimeConservationWitness ==
  /\ op = "CompactLatticeStateTimes" /\ pc = "returned"
  /\ \E p, q \in PathsFrom(lat0, 0) :
       /\ Len(p) # Len(q) /\ PathEnd(lat0, 0, p) = PathEnd(lat0, 0, q)
       /\ PathFrames(lat0, p) > 0

---------------------------------------------------------------------------
(* Alphas and betas *)

AlphaBetaArcKinds == {[ilabel |-> 1, olabel |-> 1, weight |-> w] : w \in {Zero} \cup CostWeights}

CallComputeLatticeAlphasAndBetas ==
  /\ pc = "ready"
  /\ \E viterbi \in BOOLEAN :
       LET r == ComputeLatticeAlphasAndBetas(lat, viterbi)
       IN Finish([aborted |-> r.aborted, lat |-> lat], "ComputeLatticeAlphasAndBetas",
                 IF viterbi THEN 1 ELSE 0,
                 [alpha |-> r.alpha, beta |-> r.beta, ret |-> r.ret,
                  tot_forward_prob |-> r.tot_forward_prob,
                  tot_backward_prob |-> r.tot_backward_prob],
                 Identity(lat))

InitAlphaBeta == InitWith(1..MaxStates, AlphaBetaArcKinds, {Zero} \cup CostWeights, MaxArcs)

NextAlphaBeta == CallComputeLatticeAlphasAndBetas

SpecAlphaBeta == InitAlphaBeta /\ [][NextAlphaBeta]_vars

\* the likelihood of a path from s with the final weight of its last state
PathLike(l, s, p) ==
  LET c == Plus(PathCost(l, p), ConvertToCost(l.final[PathEnd(l, s, p)]))
  IN IF c = Inf THEN 0 ELSE LogScale \div Pow2(c)

RECURSIVE SumOver(_, _, _)
SumOver(l, s, P) ==
  IF P = {} THEN 0
  ELSE LET p == CHOOSE q \in P : TRUE
       IN PathLike(l, s, p) + SumOver(l, s, P \ {p})

\* the total likelihood of the start-to-final paths
TotalLike(l) == SumOver(l, 0, PathsFrom(l, 0))

\* C7 (forward equals backward): on a topologically sorted lattice with
\* start state 0 the total of the forward pass over the final states equals
\* beta[start] of the backward pass, under the Viterbi and under the log
\* combine; under Viterbi both are the negated cost of the best
\* start-to-final path, under the log combine the log of the summed
\* likelihoods of the start-to-final paths (-infinity when there is none).
ForwardEqualsBackward ==
  (op = "ComputeLatticeAlphasAndBetas") =>
    /\ pc = "returned"
    /\ out.tot_forward_prob = out.tot_backward_prob
    /\ out.ret = out.tot_forward_prob
    /\ arg = 1 => out.tot_forward_prob =
                    (IF BestCost(lat0) = Inf THEN kLogZeroDouble
                     ELSE LogScale \div Pow2(BestCost(lat0)))
    /\ arg = 0 => out.tot_forward_prob = TotalLike(lat0)

\* a log-semiring call on a lattice with several start-to-final paths, a
\* state no path from the start reaches and a state that reaches no final
ForwardEqualsBackwardWitness ==
  /\ op = "ComputeLatticeAlphasAndBetas" /\ pc = "returned" /\ arg = 0
  /\ Cardinality({p \in PathsFrom(lat0, 0) : PathLike(lat0, 0, p) > 0}) >= 2
  /\ out.tot_forward_prob > 0
  /\ NumStates(lat0) = 3 /\ Accessible(lat0) # States(lat0)

---------------------------------------------------------------------------
(* Depth limiting *)

DepthArcKinds ==
  {[ilabel |-> 1, olabel |-> 1, weight |-> W(c, 0, Str(n))] : c \in 0..MaxCost, n \in 1..MaxStrLen}

DepthFinals == {Zero, One, W(0, 0, Str(1))}

Depths == -1..MaxDepth

\* a first call with any depth, or a second call with the depth of the first
CallCompactLatticeLimitDepth ==
  /\ \/ pc = "ready"
     \/ pc = "returned" /\ op = "CompactLatticeLimitDepth" /\ ncalls = 1
  /\ \E max_depth_per_frame \in Depths :
       /\ ncalls = 1 => max_depth_per_frame = arg
       /\ \E r \in CompactLatticeLimitDepth(max_depth_per_frame, lat) :
            Finish(r, "CompactLatticeLimitDepth", max_depth_per_frame, NoOut, r.origin)

\* the depths of the lattice the caller holds; arg stays the depth of the
\* call before
CallCompactLatticeDepthPerFrame ==
  /\ \/ pc = "ready"
     \/ pc = "returned" /\ op = "CompactLatticeLimitDepth"
  /\ LET r == CompactLatticeDepthPerFrame(lat)
     IN Finish([aborted |-> r.status = "aborted", undefined |-> r.status = "undefined",
                lat |-> lat],
               "CompactLatticeDepthPerFrame", arg,
               [depth_per_frame |-> r.depth_per_frame], Identity(lat))

InitDepth == InitWith(1..MaxStates, DepthArcKinds, DepthFinals, MaxArcs)

NextDepth == CallCompactLatticeLimitDepth \/ CallCompactLatticeDepthPerFrame

SpecDepth == InitDepth /\ [][NextDepth]_vars

\* the time of a state: the frames of a path from the start to it
StateTime(l, s) ==
  PathFrames(l, CHOOSE p \in PathsFrom(l, l.start) : PathEnd(l, l.start, p) = s)

\* number of arcs whose frame string covers frame f
ArcsCovering(l, f) ==
  Cardinality({e \in SeqRange(ArcsInOrder(l, 0)) :
                 /\ e.state \in Accessible(l)
                 /\ StateTime(l, e.state) <= f
                 /\ f < StateTime(l, e.state) + Len(ArcAt(l, [src |-> e.state, idx |-> e.arc]).weight.str)})

\* number of final weights whose frame string covers frame f
FinalsCovering(l, f) ==
  Cardinality({s \in Accessible(l) :
                 StateTime(l, s) <= f /\ f < StateTime(l, s) + Len(l.final[s].str)})

\* the state after CompactLatticeDepthPerFrame, called on the result of
\* CompactLatticeLimitDepth(arg)
DepthAfterLimit == op = "CompactLatticeDepthPerFrame" /\ ncalls >= 2

\* C4 (depth cap, as amended): after CompactLatticeLimitDepth(D, clat) with
\* D >= 0, CompactLatticeDepthPerFrame returns, and for every frame t at
\* most D arcs cover t; depth[t] is that number plus the number of
\* final-weight strings that cover t, which the limiter does not bound.
DepthCapArcs ==
  DepthAfterLimit =>
    /\ pc = "returned"
    /\ \A f \in DOMAIN out.depth_per_frame :
         /\ out.depth_per_frame[f] = ArcsCovering(lat, f) + FinalsCovering(lat, f)
         /\ arg >= 0 => ArcsCovering(lat, f) <= arg

\* a lattice limited to depth 1 where a frame is covered by one arc and by
\* a final-weight string, after the limiter removed arcs
DepthCapWitness ==
  /\ DepthAfterLimit /\ pc = "returned" /\ arg = 1
  /\ TotalArcs(lat) < TotalArcs(input)
  /\ \E f \in DOMAIN out.depth_per_frame :
       ArcsCovering(lat, f) = 1 /\ out.depth_per_frame[f] = 2

\* C4 as first stated: depth[t] <= D for every frame t, depth[t] counting
\* the arcs and the final-weight strings that cover t, for any D.
DepthCapAll ==
  (DepthAfterLimit /\ pc = "returned") =>
    \A f \in DOMAIN out.depth_per_frame : out.depth_per_frame[f] <= arg

\* C8 (idempotence of depth limiting): CompactLatticeLimitDepth(D) applied
\* to the result of CompactLatticeLimitDepth(D) returns and leaves the
\* lattice as it is.
LimitDepthIdempotent ==
  [][(op = "CompactLatticeLimitDepth" /\ pc = "returned"
      /\ op' = "CompactLatticeLimitDepth" /\ arg' = arg)
       => (pc' = "returned" /\ lat' = lat)]_vars

\* a second application, to a lattice the first application took arcs from
\* and left arcs in
LimitDepthIdempotentWitness ==
  /\ op = "CompactLatticeLimitDepth" /\ pc = "returned" /\ ncalls = 2
  /\ TotalArcs(lat) > 0 /\ TotalArcs(lat) < TotalArcs(input)
  /\ arg = 1

---------------------------------------------------------------------------
(* Composition with a deterministic FST *)

\* GetArc finding no arc
DetNoArc == [matched |-> FALSE, weight |-> 0, nextstate |-> kNoStateId]

\* the arcs a det_fst of n states may have: at most one per state and label
DetArcsOf(n) ==
  [(0..n-1) \X (1..MaxDetLabel) ->
     {DetNoArc} \cup {[matched |-> TRUE, weight |-> 1, nextstate |-> t] : t \in 0..n-1}]

\* the det_fst inputs: final weights of cost 1 or Weight1::Zero()
DetFsts ==
  UNION {[start : {0}, final : [0..n-1 -> {1, Inf}], arcs : DetArcsOf(n)] : n \in 1..MaxDetStates}

ComposeArcKinds ==
  {[ilabel |-> l, olabel |-> l, weight |-> W(1, 1, Str(1))] : l \in 0..MaxDetLabel}

ComposeFinals == {Zero, W(1, 1, Str(1))}

CallComposeCompactLatticeDeterministic ==
  /\ pc = "ready"
  /\ \E d \in DetFsts :
       LET r == ComposeCompactLatticeDeterministic(lat, d)
       IN /\ pc' = (IF r.undefined THEN "undefined" ELSE "returned")
          /\ op' = "ComposeCompactLatticeDeterministic"
          /\ lat0' = lat /\ arg' = 0 /\ out' = NoOut /\ det' = d
          /\ lat' = r.lat /\ origin' = r.pairs /\ ncalls' = ncalls + 1
          /\ UNCHANGED <<input, decodable>>

InitCompose == InitWith(1..MaxStates, ComposeArcKinds, ComposeFinals, MaxArcs - 1)

NextCompose == CallComposeCompactLatticeDeterministic

SpecCompose == InitCompose /\ [][NextCompose]_vars

\* the semiring product of two compact lattice weights
Times(a, b) == W(Plus(a.v1, b.v1), Plus(a.v2, b.v2), a.str \o b.str)

\* the labels of a path
RECURSIVE PathOlabels(_, _)
PathOlabels(l, p) ==
  IF p = << >> THEN << >> ELSE <<ArcAt(l, p[1]).olabel>> \o PathOlabels(l, Tail(p))

\* the product of the weights of the arcs of a path
RECURSIVE PathWeight(_, _)
PathWeight(l, p) ==
  IF p = << >> THEN One ELSE Times(ArcAt(l, p[1]).weight, PathWeight(l, Tail(p)))

\* the paths from the start state to a final state
FinalPaths(l) ==
  IF l.start = kNoStateId THEN {}
  ELSE {p \in PathsFrom(l, l.start) : l.final[PathEnd(l, l.start, p)] # Zero}

\* the label sequences of the start-to-final paths, each with the weight
\* of the path, final weight included
Language(l) ==
  {[w |-> PathOlabels(l, p),
    weight |-> Times(PathWeight(l, p), l.final[PathEnd(l, l.start, p)])] : p \in FinalPaths(l)}

\* det_fst reading the labels w[i..] from state s, epsilons skipped:
\* [ok, state, cost]
RECURSIVE DetRun(_, _, _, _, _)
DetRun(d, s, w, i, c) ==
  IF i > Len(w) THEN [ok |-> TRUE, state |-> s, cost |-> c]
  ELSE IF w[i] = 0 THEN DetRun(d, s, w, i + 1, c)
  ELSE LET a == d.arcs[<<s, w[i]>>]
       IN IF a.matched THEN DetRun(d, a.nextstate, w, i + 1, c + a.weight)
          ELSE [ok |-> FALSE, state |-> s, cost |-> c]

\* w is accepted by det_fst
DetAccepts(d, w) ==
  LET r == DetRun(d, d.start, w, 1, 0) IN r.ok /\ d.final[r.state] # Inf

\* the cost det_fst gives w
DetCost(d, w) ==
  LET r == DetRun(d, d.start, w, 1, 0) IN r.cost + d.final[r.state]

\* C5 (composition correctness): the start-to-final paths of the output are
\* labelled by the label sequences of the start-to-final paths of clat that
\* det_fst accepts, each with the clat weight and the det_fst cost added
\* to its first component; no composed state is final when the det_fst
\* state of its pair has final weight zero.
ComposeCorrect ==
  (op = "ComposeCompactLatticeDeterministic" /\ pc = "returned") =>
    /\ Language(lat) =
         {[w |-> e.w, weight |-> Times(e.weight, W(DetCost(det, e.w), 0, << >>))] :
            e \in {x \in Language(lat0) : DetAccepts(det, x.w)}}
    /\ \A s \in States(lat) : det.final[origin[s][2]] = Inf => lat.final[s] = Zero

---------------------------------------------------------------------------
(* Word insertion penalty *)

\* v is a BaseFloat
IsFloat(v) == v = Inf \/ FloatRound(v) = v

WipArcKinds ==
  {[ilabel |-> l, olabel |-> l, weight |-> W(c, 1, Str(1))] : l \in 0..MaxLabel, c \in {0, 1, Inf}}

\* the penalties a caller may pass, negative ones included
Penalties == {p \in (0 - MaxPenalty)..MaxPenalty : IsFloat(p)}

\* a first call, or a second call on the result of the first
CallAddWordInsPenToCompactLattice ==
  /\ pc = "ready" \/ (pc = "returned" /\ op = "AddWordInsPenToCompactLattice" /\ ncalls = 1)
  /\ \E p \in Penalties :
       Finish([aborted |-> FALSE, lat |-> AddWordInsPenToCompactLattice(p, lat)],
              "AddWordInsPenToCompactLattice", p, NoOut, Identity(lat))

InitWip == InitWith(0..MaxStates, WipArcKinds, {Zero, One}, MaxArcs - 1)

NextWip == CallAddWordInsPenToCompactLattice

SpecWip == InitWip /\ [][NextWip]_vars

\* l2 is l1 but for the first weight component of arcs with ilabel # 0
WipFrame(l1, l2) ==
  /\ l2.start = l1.start /\ l2.final = l1.final /\ States(l2) = States(l1)
  /\ \A s \in States(l1) :
       /\ DOMAIN l2.arcs[s] = DOMAIN l1.arcs[s]
       /\ \A i \in DOMAIN l1.arcs[s] :
            LET a == l1.arcs[s][i]
                b == l2.arcs[s][i]
            IN IF a.ilabel = 0 THEN b = a
               ELSE b = [a EXCEPT !.weight.v1 = b.weight.v1]

\* the first components of the arcs with ilabel # 0, as a function of
\* <<state, arc>>
WordCosts(l) ==
  [e \in {x \in SeqRange(ArcsInOrder(l, 0)) : l.arcs[x.state][x.arc].ilabel # 0} |->
     l.arcs[e.state][e.arc].weight.v1]

\* the second of two calls in a row, with penalty arg after the first and
\* arg' after the second; lat0 is the lattice before the first
WipSecondCall ==
  /\ op = "AddWordInsPenToCompactLattice" /\ pc = "returned"
  /\ op' = "AddWordInsPenToCompactLattice"

\* C9 (WIP additivity and frame, as amended): each call changes nothing but
\* the first component of the arcs with ilabel # 0, to which it adds the
\* penalty in BaseFloat arithmetic; a call with p and then one with q give
\* the lattice of one call with p + q on every arc for which w + p,
\* (w + p) + q and p + q are BaseFloat values without rounding.
WipAdditiveExact ==
  [][(op' = "AddWordInsPenToCompactLattice") =>
       /\ pc' = "returned"
       /\ WipFrame(lat, lat')
       /\ \A e \in DOMAIN WordCosts(lat) :
            WordCosts(lat')[e] = FloatAdd(WordCosts(lat)[e], arg')
       /\ WipSecondCall =>
            \A e \in DOMAIN WordCosts(lat0) :
              LET w == WordCosts(lat0)[e]
              IN (w = Inf \/ (IsFloat(w + arg) /\ IsFloat(w + arg + arg') /\ IsFloat(arg + arg')))
                   => WordCosts(lat')[e] = FloatAdd(w, FloatAdd(arg, arg'))]_vars

\* two calls with non-zero penalties on a lattice with an epsilon arc and a
\* word arc of first component 1, which the calls take to 2 and to 3
WipAdditiveWitness ==
  /\ op = "AddWordInsPenToCompactLattice" /\ pc = "returned" /\ ncalls = 2
  /\ \E e \in DOMAIN WordCosts(input) :
       WordCosts(input)[e] = 1 /\ WordCosts(lat0)[e] = 2 /\ WordCosts(lat)[e] = 3
  /\ \E s \in States(lat) : \E i \in DOMAIN lat.arcs[s] : lat.arcs[s][i].ilabel = 0

\* C9 as first stated: a call with p and then one with q give the lattice
\* of one call with p + q, and each call changes nothing but the first
\* component of the arcs with ilabel # 0.
WipAdditive ==
  [][(op' = "AddWordInsPenToCompactLattice") =>
       /\ WipFrame(lat, lat')
       /\ WipSecondCall =>
            /\ WipFrame(lat0, lat')
            /\ \A e \in DOMAIN WordCosts(lat0) :
                 WordCosts(lat')[e] = FloatAdd(WordCosts(lat0)[e], FloatAdd(arg, arg'))]_vars

---------------------------------------------------------------------------
(* Word alignment *)

AlignArcKinds ==
  {[ilabel |-> l, olabel |-> l, weight |-> W(0, 0, Str(n))] : l \in 0..MaxLabel, n \in 0..MaxStrLen}

CallCompactLatticeToWordAlignment ==
  /\ pc = "ready"
  /\ Finish([aborted |-> FALSE, lat |-> lat], "CompactLatticeToWordAlignment", 0,
            CompactLatticeToWordAlignment(lat), Identity(lat))

InitAlign == InitWith(0..MaxStates, AlignArcKinds, {Zero, One}, MaxArcs)

NextAlign == CallCompactLatticeToWordAlignment

SpecAlign == InitAlign /\ [][NextAlign]_vars

\* state s is where a linear lattice ends: final, with no arc
AlignEnd(l, s) == l.final[s] # Zero /\ NumArcs(l, s) = 0

\* state s breaks the chain: final with arcs, or not final with a number of
\* arcs other than 1
AlignBreak(l, s) ==
  \/ l.final[s] # Zero /\ NumArcs(l, s) # 0
  \/ l.final[s] = Zero /\ NumArcs(l, s) # 1

\* the lattice is not linear: the chain of first arcs from the start state
\* comes to a state that breaks it
NonLinear(l) ==
  /\ l.start # kNoStateId
  /\ \E p \in PathsFrom(l, l.start) :
       /\ \A i \in 1..Len(p) : p[i].idx = 1 /\ ~AlignEnd(l, p[i].src) /\ ~AlignBreak(l, p[i].src)
       /\ AlignBreak(l, PathEnd(l, l.start, p))

\* C10 (NonLinear error outcome): when CompactLatticeToWordAlignment fails
\* because the lattice is not linear, at whatever state of the chain, it
\* returns false and words, begin_times and lengths are empty on return.
AlignNonLinearCleared ==
  (op = "CompactLatticeToWordAlignment" /\ NonLinear(lat)) =>
    /\ pc = "returned" /\ out.ret = FALSE
    /\ out.words = << >> /\ out.begin_times = << >> /\ out.lengths = << >>

---------------------------------------------------------------------------
(* Lattices with no start state *)

\* the oracles: the frames at which IsLastFrame answers true, and the sign
\* of the log-likelihoods
Decodables == [last : SUBSET (0..MaxStates-1), scale : {-1, 1}]

CallRescoreLattice ==
  /\ pc = "ready"
  /\ \E d \in Decodables :
       LET r == RescoreLattice(d, lat)
       IN /\ pc' = (IF r.aborted THEN "aborted" ELSE "returned")
          /\ op' = "RescoreLattice" /\ lat0' = lat /\ arg' = 0
          /\ out' = [ret |-> r.ret] /\ lat' = r.lat /\ origin' = Identity(lat)
          /\ decodable' = d /\ ncalls' = ncalls + 1
          /\ UNCHANGED <<det, input>>

CallCompactLatticeDepth ==
  /\ pc = "ready"
  /\ LET r == CompactLatticeDepth(lat)
     IN Finish([aborted |-> r.aborted, lat |-> lat], "CompactLatticeDepth", 0,
               [num_frames |-> r.num_frames, depth |-> r.depth], Identity(lat))

EmptyArcKinds ==
  {[ilabel |-> l, olabel |-> l, weight |-> W(0, 0, Str(1))] : l \in 0..MaxLabel}

\* the caller holds a lattice with no start state, of no state or of some
InitEmpty ==
  /\ \E n \in 0..MaxStates : \E fin \in [0..n-1 -> {Zero, One}] :
       \E k \in 0..(MaxArcs - 1) : \E al \in [1..k -> InputArcs(n, EmptyArcKinds)] :
         /\ SortedBySrc(al)
         /\ lat = SetStart(MkLattice(n, al, fin), kNoStateId)
  /\ pc = "ready" /\ op = "" /\ lat0 = lat /\ arg = 0
  /\ det = NoDet /\ out = NoOut /\ origin = Identity(lat) /\ ncalls = 0
  /\ input = lat /\ decodable = NoDecodable

NextEmpty ==
  \/ CallPruneLattice
  \/ CallRescoreLattice
  \/ CallCompactLatticeToWordAlignment
  \/ CallCompactLatticeDepthPerFrame
  \/ CallCompactLatticeShortestPath
  \/ CallComposeCompactLatticeDeterministic
  \/ CallCompactLatticeDepth

SpecEmpty == InitEmpty /\ [][NextEmpty]_vars

\* the empty result of each operation
EmptyResult ==
  /\ op \in {"PruneLattice", "RescoreLattice", "CompactLatticeToWordAlignment"} => out.ret = FALSE
  /\ op = "CompactLatticeToWordAlignment" =>
       out.words = << >> /\ out.begin_times = << >> /\ out.lengths = << >>
  /\ op = "CompactLatticeDepthPerFrame" => out.depth_per_frame = << >>
  /\ op = "CompactLatticeShortestPath" => out.shortest_path = EmptyLat
  /\ op = "ComposeCompactLatticeDeterministic" => lat = EmptyLat
  /\ op = "CompactLatticeDepth" => out.depth = [num |-> 1, den |-> 1]

\* C11 (EmptyLattice handling): every operation given a lattice with no
\* start state, of zero states or of more, returns with its empty result,
\* reaching no assertion failure and indexing nothing at state id -1.
EmptyHandled ==
  (op # "" /\ lat0.start = kNoStateId /\ (op = "PruneLattice" => arg > 0)) =>
    (pc = "returned" /\ EmptyResult)

---------------------------------------------------------------------------
(* Rescoring *)

RescoreArcKinds ==
  {[ilabel |-> il, olabel |-> 0, weight |-> W(1, 1, << >>)] : il \in 0..MaxLabel}

InitRescore == InitWith(1..(MaxStates + 2), RescoreArcKinds, {One}, MaxArcs + 1)

NextRescore == CallRescoreLattice

SpecRescore == InitRescore /\ [][NextRescore]_vars

\* the number of non-epsilon input labels on a path from the start to s
LabelTime(l, s) ==
  PathIlabels(l, CHOOSE p \in PathsFrom(l, l.start) : PathEnd(l, l.start, p) = s)

\* arc a with its second component rescored once, at frame t
RescoredOnce(a, t) ==
  [a EXCEPT !.weight.v2 = FloatAdd(a.weight.v2, 0 - LogLikelihood(decodable, t, a.ilabel))]

\* the states and the arc places of lat are those of lat0
SameShape ==
  /\ lat.start = lat0.start /\ States(lat) = States(lat0) /\ lat.final = lat0.final
  /\ \A s \in States(lat0) : DOMAIN lat.arcs[s] = DOMAIN lat0.arcs[s]

\* C12 (rescoring effect and frame): when RescoreLattice returns true, every
\* arc with ilabel # 0 leaving a state reachable from the start has its
\* second component replaced, once, by w2 - LogLikelihood(t, ilabel), t the
\* time of its source state; arcs with ilabel = 0, first components, final
\* weights, labels and next states are unchanged.
RescoreEffect ==
  (op = "RescoreLattice" /\ pc = "returned" /\ out.ret) =>
    /\ SameShape
    /\ \A s \in States(lat0) : \A i \in DOMAIN lat0.arcs[s] :
         LET a == lat0.arcs[s][i]
             b == lat.arcs[s][i]
         IN /\ b = [a EXCEPT !.weight.v2 = b.weight.v2]
            /\ a.ilabel = 0 => b = a
            /\ (a.ilabel # 0 /\ s \in Accessible(lat0)) => b = RescoredOnce(a, LabelTime(lat0, s))

\* a lattice of three frames rescored to the end, with an epsilon arc and a
\* state the start does not reach
RescoreEffectWitness ==
  /\ op = "RescoreLattice" /\ pc = "returned" /\ out.ret
  /\ \E s \in Accessible(lat0) : \E i \in DOMAIN lat0.arcs[s] :
       lat0.arcs[s][i].ilabel # 0 /\ LabelTime(lat0, s) = 2 /\ lat.arcs[s][i] # lat0.arcs[s][i]
  /\ \E s \in States(lat0) : \E i \in DOMAIN lat0.arcs[s] : lat0.arcs[s][i].ilabel = 0

\* the times LatticeStateTimes gives the states of the lattice rescored
RescoreTimes == LatticeStateTimes(lat0).times

\* the frames before the last at which the oracle says last frame
RescoreShortOf(times) == {t \in decodable.last : t < MaxElement(times) - 1}

RescoreShort == RescoreShortOf(RescoreTimes)

\* the arcs of lat: those with a label leaving a state of a time in T are
\* rescored once, the others are as in lat0
RescoredAt(times, T) ==
  /\ SameShape
  /\ \A s \in States(lat0) : \A i \in DOMAIN lat0.arcs[s] :
       LET a == lat0.arcs[s][i]
       IN lat.arcs[s][i] = IF a.ilabel # 0 /\ times[s] \in T
                           THEN RescoredOnce(a, times[s])
                           ELSE a

\* C16 (rescoring failure ordering, as amended): on a lattice with states,
\* when the oracle first says last frame at a t < utt_len - 1 the call
\* returns false having rescored, once, the arcs with a label that leave
\* states of time 0..t-1 and no other arc (none of those of states of time
\* -1, which no frame visits); when it says so only at utt_len - 1 or later
\* or never, the call returns true.
RescoreFailureOrderFrom0 ==
  (op = "RescoreLattice" /\ pc = "returned") =>
    LET times == RescoreTimes
        short == RescoreShortOf(times)
    IN IF short # {}
       THEN ~out.ret /\ RescoredAt(times, 0..(MinOf(short) - 1))
       ELSE out.ret /\ RescoredAt(times, 0..(MaxElement(times) - 1))

\* a call that fails at frame 1, after the arcs of frame 0 and before those
\* of frames 1 and 2
RescoreFailureOrderWitness ==
  /\ op = "RescoreLattice" /\ pc = "returned" /\ ~out.ret
  /\ RescoreShort # {} /\ MinOf(RescoreShort) = 1
  /\ \E s \in States(lat0) : \E i \in DOMAIN lat0.arcs[s] :
       RescoreTimes[s] = 0 /\ lat.arcs[s][i] # lat0.arcs[s][i]
  /\ \E s \in States(lat0) : \E i \in DOMAIN lat0.arcs[s] :
       RescoreTimes[s] = 1 /\ lat0.arcs[s][i].ilabel # 0

\* C16 as first stated: the arcs rescored are those with a label that leave
\* states of time < t, the others those of states of time >= t.
RescoreFailureOrder ==
  (op = "RescoreLattice" /\ pc = "returned") =>
    LET times == RescoreTimes
        short == RescoreShortOf(times)
    IN IF short # {}
       THEN ~out.ret /\ RescoredAt(times, {t \in -1..MaxStates : t < MinOf(short)})
       ELSE out.ret

\* the chain of a linear lattice: the path of first arcs from the start
\* state through non-final states of one arc each to a final state with no
\* arc
AlignChains(l) ==
  IF l.start = kNoStateId THEN {}
  ELSE {p \in PathsFrom(l, l.start) :
          /\ \A i \in 1..Len(p) : l.final[p[i].src] = Zero /\ NumArcs(l, p[i].src) = 1
          /\ AlignEnd(l, PathEnd(l, l.start, p))}

\* C13 (word alignment of a linear lattice): on a linear compact lattice
\* CompactLatticeToWordAlignment returns true with three arrays of one
\* entry per arc of the chain, in chain order: words[i] the ilabel of the
\* arc (zero included), lengths[i] the length of its frame string,
\* begin_times[1] = 0 and begin_times[i+1] = begin_times[i] + lengths[i].
AlignLinear ==
  (op = "CompactLatticeToWordAlignment") =>
    \A p \in AlignChains(lat) :
      /\ pc = "returned" /\ out.ret
      /\ Len(out.words) = Len(p) /\ Len(out.begin_times) = Len(p) /\ Len(out.lengths) = Len(p)
      /\ \A i \in 1..Len(p) :
           /\ out.words[i] = ArcAt(lat, p[i]).ilabel
           /\ out.lengths[i] = Len(ArcAt(lat, p[i]).weight.str)
           /\ out.begin_times[i] = IF i = 1 THEN 0
                                   ELSE out.begin_times[i - 1] + out.lengths[i - 1]

\* a chain of two arcs, one of label zero, with frames on the first
AlignLinearWitness ==
  /\ op = "CompactLatticeToWordAlignment" /\ pc = "returned" /\ out.ret
  /\ \E p \in AlignChains(lat) :
       /\ Len(p) = 2 /\ out.begin_times[2] > 0
       /\ \E i \in 1..2 : out.words[i] = 0

---------------------------------------------------------------------------
(* Longest sentence *)

\* Lattice arcs: the two labels of an arc are independent
LongestLatArcKinds ==
  {[ilabel |-> il, olabel |-> ol, weight |-> One] : il \in 0..MaxLabel, ol \in 0..MaxLabel}

\* CompactLattice arcs: an acceptor
LongestClatArcKinds ==
  {[ilabel |-> l, olabel |-> l, weight |-> W(0, 0, Str(1))] : l \in 0..MaxLabel}

\* the Lattice overload; arg is 0
CallLongestSentenceLengthLattice ==
  /\ pc = "ready" /\ IsLattice(lat)
  /\ LET r == LongestSentenceLength(lat, FALSE)
     IN Finish([aborted |-> r.aborted, lat |-> lat], "LongestSentenceLength", 0,
               [ret |-> r.ret], Identity(lat))

\* the CompactLattice overload; arg is 1
CallLongestSentenceLengthCompact ==
  /\ pc = "ready" /\ IsCompactLattice(lat)
  /\ LET r == LongestSentenceLength(lat, TRUE)
     IN Finish([aborted |-> r.aborted, lat |-> lat], "LongestSentenceLength", 1,
               [ret |-> r.ret], Identity(lat))

InitLongest ==
  \/ InitWith(1..MaxStates, LongestLatArcKinds, {Zero, One}, MaxArcs)
  \/ InitWith(1..MaxStates, LongestClatArcKinds, {Zero, One}, MaxArcs)

NextLongest == CallLongestSentenceLengthLattice \/ CallLongestSentenceLengthCompact

SpecLongest == InitLongest /\ [][NextLongest]_vars

\* the number of arcs of a path that bear a word
RECURSIVE PathWords(_, _, _)
PathWords(l, compact, p) ==
  IF p = << >> THEN 0
  ELSE (IF (IF compact THEN ArcAt(l, p[1]).ilabel ELSE ArcAt(l, p[1]).olabel) # 0
        THEN 1 ELSE 0) + PathWords(l, compact, Tail(p))

\* C14 (longest sentence length): LongestSentenceLength returns the maximum,
\* over the paths from the start state to a final state, of the number of
\* arcs with a word, and 0 when there is no such path; arcs on paths that
\* begin at a state the start does not reach do not count.
LongestIsMaxSentence ==
  (op = "LongestSentenceLength") =>
    /\ pc = "returned"
    /\ out.ret = IF FinalPaths(lat) = {} THEN 0
                 ELSE MaxOf({PathWords(lat, arg = 1, p) : p \in FinalPaths(lat)})

---------------------------------------------------------------------------
(* Pruning: which arcs are kept *)

\* forward[s] + cost(arc) + backward[t] of the i-th arc of state s of l
ArcFullCost(l, s, i) ==
  Plus(Plus(FwdCost(l, s), ConvertToCost(l.arcs[s][i].weight)),
       BwdCost(l, l.arcs[s][i].nextstate))

\* the i-th arc of state s of the lattice before the call is in the lattice
ArcPresent(s, i) ==
  \E s2 \in States(lat) :
    /\ origin[s2] = s
    /\ \E j \in DOMAIN lat.arcs[s2] :
         [lat.arcs[s2][j] EXCEPT !.nextstate = origin[lat.arcs[s2][j].nextstate]]
           = lat0.arcs[s][i]

---------------------------------------------------------------------------
(* Depth limiting: the best path *)

\* C17 (depth limiting keeps the best path): for a compact lattice with a
\* start-to-final path and D >= 1, ties at the best score included, after
\* CompactLatticeLimitDepth(D, clat) the lattice is non-empty and has a
\* start-to-final path of the best path cost of the input.
LimitDepthKeepsBest ==
  (op = "CompactLatticeLimitDepth" /\ pc = "returned" /\ arg >= 1
   /\ BestCost(lat0) < Inf) =>
    /\ NumStates(lat) > 0
    /\ BestCost(lat) = BestCost(lat0)

====
